---- MODULE Spec2Model ----
(***************************************************************************)
(* dictcc-stardict, convert.py: the headword parser (FieldParser) and the  *)
(* aggregation stage of main().                                            *)
(*                                                                         *)
(* A Python str is modelled as a sequence of one-character strings, so     *)
(* "sb." is <<"s", "b", ".">>.  The only whitespace character of the model *)
(* is the plain space, and every character is ASCII.                       *)
(***************************************************************************)
EXTENDS Integers, Sequences, FiniteSets, TLC

VARIABLES
    abbreviations_synonyms,       \* FieldParser: self.abbreviations_synonyms
    find_abbreviations_exprs,     \* FieldParser: self.find_abbreviations_exprs
    pc,                           \* FieldParser: position inside get_possible_source_words
    field, word_class, lang,      \* FieldParser: arguments of the running call
    make_abbreviations_optional,
    replace_abbreviations,
    tokens, index,                \* FieldParser: locals of the running call
    source_words, finished_words,
    already_encountered_word,
    return_words,
    result,                       \* FieldParser: value returned by the last call
    phase,                        \* main: position inside main()
    input_file, line_no,          \* main: the lines of the input file, lines consumed
    dictionary,                   \* main: dictionary (key -> DictEntry)
    translations_to_source_words, \* main: translations tuple -> {(src, is_replacement)}
    glossary,                     \* main: the entries handed to the Glossary
    session, call_no,             \* caller: the calls it makes on one instance, calls made
    results                       \* caller: what the calls made have returned

parser_vars == <<pc, field, word_class, lang, make_abbreviations_optional,
                 replace_abbreviations, tokens, index, source_words,
                 finished_words, already_encountered_word, return_words, result>>
main_vars == <<phase, input_file, line_no, dictionary,
               translations_to_source_words, glossary>>
caller_vars == <<session, call_no, results>>
tables == <<abbreviations_synonyms, find_abbreviations_exprs>>
vars == <<tables, parser_vars, main_vars, caller_vars>>

-----------------------------------------------------------------------------
(* Python values *)

\* Python's None, for word_class (a class read from a file is lower-cased,
\* so it never equals this capitalised atom).
None == "None"

\* An optional set (source_words, build_words): <<>> is None, <<S>> is the set S.
Unset == <<>>
Some(S) == <<S>>
IsUnset(o) == o = <<>>
Get(o) == o[1]

\* An empty dict.
EmptyDict == [k \in {} |-> {}]

\* d.get(k, {}) for a dict of dicts, d.get(k, set()) for a dict of sets.
DictGet(d, k, default) == IF k \in DOMAIN d THEN d[k] ELSE default

IsSpace(c) == c = " "

\* The position of the first non-whitespace character of s at or after loc
\* (Len(s) + 1 when there is none): pyparsing's whitespace skipping.
RECURSIVE SkipWhitespace(_, _)
SkipWhitespace(s, loc) ==
    IF loc <= Len(s) /\ IsSpace(s[loc]) THEN SkipWhitespace(s, loc + 1) ELSE loc

\* s[a:b] for 1-based positions a (first kept) and b (first dropped).
Slice(s, a, b) == SubSeq(s, a, b - 1)

\* word.split(): the maximal runs of non-whitespace characters, in order.
RECURSIVE Split(_)
RECURSIVE RunEnd(_, _)
RunEnd(s, loc) ==
    IF loc <= Len(s) /\ ~IsSpace(s[loc]) THEN RunEnd(s, loc + 1) ELSE loc
Split(s) ==
    LET p == SkipWhitespace(s, 1)
    IN  IF p > Len(s) THEN <<>>
        ELSE LET q == RunEnd(s, p)
             IN  <<Slice(s, p, q)>> \o Split(Slice(s, q, Len(s) + 1))

\* " ".join(parts)
RECURSIVE Join(_)
Join(parts) ==
    IF Len(parts) = 0 THEN <<>>
    ELSE IF Len(parts) = 1 THEN parts[1]
    ELSE parts[1] \o <<" ">> \o Join(Tail(parts))

\* " ".join(word.split())
JoinSplit(word) == Join(Split(word))

-----------------------------------------------------------------------------
(* FieldParser._init_line_parser: the token grammar *)

Token(type, value) == [type |-> type, value |-> value]

\* One bracket rule, e.g. round:
\*   locMarker + '(' + ZeroOrMore(round | CharsNotIn(")", exact=1)) + ')' + endlocMarker
\* Bracket gives the position after the closing bracket, or 0 when the rule
\* does not match at loc.  Every element skips leading whitespace.
RECURSIVE Bracket(_, _, _, _)
RECURSIVE BracketBody(_, _, _, _)
Bracket(s, loc, open, close) ==
    LET p == SkipWhitespace(s, loc)
    IN  IF p <= Len(s) /\ s[p] = open
        THEN LET q == BracketBody(s, p + 1, open, close)
                 r == SkipWhitespace(s, q)
             IN  IF r <= Len(s) /\ s[r] = close THEN r + 1 ELSE 0
        ELSE 0
BracketBody(s, loc, open, close) ==
    LET nested == Bracket(s, loc, open, close)
        p == SkipWhitespace(s, loc)
    IN  IF nested # 0 THEN BracketBody(s, nested, open, close)
        ELSE IF p <= Len(s) /\ s[p] # close
        THEN BracketBody(s, p + 1, open, close)
        ELSE loc

\* The parse action of a bracket rule: string[tokens.start+1:tokens.end-1].
BracketValue(s, loc, end) == Slice(s, SkipWhitespace(s, loc) + 1, end - 1)

\* word = locMarker + CharsNotIn(" ([{<") + endlocMarker: the position after
\* the word, or 0 when no word starts at loc.
WordStopChars == {" ", "(", "[", "{", "<"}
RECURSIVE WordRunEnd(_, _)
WordRunEnd(s, loc) ==
    IF loc <= Len(s) /\ s[loc] \notin WordStopChars
    THEN WordRunEnd(s, loc + 1) ELSE loc
WordRule(s, loc) ==
    LET p == SkipWhitespace(s, loc)
        q == WordRunEnd(s, p)
    IN  IF q > p THEN q ELSE 0

\* brackets = round | square | curly | angle, in this order.
BracketKinds == << [type |-> "Round",  open |-> "(", close |-> ")"],
                   [type |-> "Square", open |-> "[", close |-> "]"],
                   [type |-> "Curly",  open |-> "{", close |-> "}"],
                   [type |-> "Angle",  open |-> "<", close |-> ">"] >>

\* FirstBracket that reports every kind of bracket as a Round.
RECURSIVE FirstBracketAllRound(_, _, _)
FirstBracketAllRound(s, loc, k) ==
    IF k > Len(BracketKinds) THEN [type |-> "", end |-> 0]
    ELSE LET end == Bracket(s, loc, BracketKinds[k].open, BracketKinds[k].close)
         IN  IF end # 0 THEN [type |-> "Round", end |-> end]
             ELSE FirstBracketAllRound(s, loc, k + 1)

\* The first bracket rule that matches at loc: [type, end], end = 0 when
\* none does.
RECURSIVE FirstBracket(_, _, _)
FirstBracket(s, loc, k) ==
    IF k > Len(BracketKinds) THEN [type |-> "", end |-> 0]
    ELSE LET end == Bracket(s, loc, BracketKinds[k].open, BracketKinds[k].close)
         IN  IF end # 0 THEN [type |-> BracketKinds[k].type, end |-> end]
             ELSE FirstBracket(s, loc, k + 1)

\* self.expr = ZeroOrMore(word | brackets | Suppress(Word(" "))), parsed by
\* parse_string without parse_all: the tokens matched from loc on, and the
\* position where matching stopped.  Suppress(Word(" ")) never matches,
\* because the leading whitespace has been skipped before it is tried.
RECURSIVE ParseFrom(_, _)
ParseFrom(s, loc) ==
    LET w == WordRule(s, loc)
        b == FirstBracket(s, loc, 1)
    IN  IF w # 0
        THEN LET rest == ParseFrom(s, w)
             IN  [tokens |-> <<Token("Word", Slice(s, SkipWhitespace(s, loc), w))>>
                               \o rest.tokens,
                  stop |-> rest.stop]
        ELSE IF b.end # 0
        THEN LET rest == ParseFrom(s, b.end)
             IN  [tokens |-> <<Token(b.type, BracketValue(s, loc, b.end))>>
                               \o rest.tokens,
                  stop |-> rest.stop]
        ELSE [tokens |-> <<>>, stop |-> loc]

\* FieldParser.parse_tokens
parse_tokens(s) == ParseFrom(s, 1).tokens

-----------------------------------------------------------------------------
(* FieldParser._init_replace_abbreviations *)

\* self.abbreviations_synonyms: per language the dict abbreviation -> synonyms,
\* kept as a sequence because the dict's insertion order is the order in
\* which the alternatives of the find expression are tried.
AbbreviationsSynonyms ==
    [l \in {"en", "de"} |->
        IF l = "en" THEN <<
            \* "sth.": {"something"}
            [abbreviation |-> <<"s", "t", "h", ".">>,
             synonyms |-> {<<"s", "o", "m", "e", "t", "h", "i", "n", "g">>}],
            \* "sb.": {"somebody"}
            [abbreviation |-> <<"s", "b", ".">>,
             synonyms |-> {<<"s", "o", "m", "e", "b", "o", "d", "y">>}],
            \* "sb.'s": {"somebody's"}
            [abbreviation |-> <<"s", "b", ".", "'", "s">>,
             synonyms |-> {<<"s", "o", "m", "e", "b", "o", "d", "y", "'", "s">>}],
            \* "sb./sth.": {"somebody", "something", "somebody/something"}
            [abbreviation |-> <<"s", "b", ".", "/", "s", "t", "h", ".">>,
             synonyms |-> {<<"s", "o", "m", "e", "b", "o", "d", "y">>,
                           <<"s", "o", "m", "e", "t", "h", "i", "n", "g">>,
                           <<"s", "o", "m", "e", "b", "o", "d", "y", "/", "s", "o", "m", "e", "t", "h", "i", "n", "g">>}] >>
        ELSE <<
            \* "jd.": {"jemand"}
            [abbreviation |-> <<"j", "d", ".">>,
             synonyms |-> {<<"j", "e", "m", "a", "n", "d">>}],
            \* "jds.": {"jemandes"}
            [abbreviation |-> <<"j", "d", "s", ".">>,
             synonyms |-> {<<"j", "e", "m", "a", "n", "d", "e", "s">>}],
            \* "jdm.": {"jemandem"}
            [abbreviation |-> <<"j", "d", "m", ".">>,
             synonyms |-> {<<"j", "e", "m", "a", "n", "d", "e", "m">>}],
            \* "jdn.": {"jemanden"}
            [abbreviation |-> <<"j", "d", "n", ".">>,
             synonyms |-> {<<"j", "e", "m", "a", "n", "d", "e", "n">>}],
            \* "etw.": {"etwas"}
            [abbreviation |-> <<"e", "t", "w", ".">>,
             synonyms |-> {<<"e", "t", "w", "a", "s">>}],
            \* "jd./etw.": {"jemand", "etwas", "jemand/etwas"}
            [abbreviation |-> <<"j", "d", ".", "/", "e", "t", "w", ".">>,
             synonyms |-> {<<"j", "e", "m", "a", "n", "d">>,
                           <<"e", "t", "w", "a", "s">>,
                           <<"j", "e", "m", "a", "n", "d", "/", "e", "t", "w", "a", "s">>}],
            \* "jds./etw.": {"jemandes", "etwas", "jemandes/etwas"}
            [abbreviation |-> <<"j", "d", "s", ".", "/", "e", "t", "w", ".">>,
             synonyms |-> {<<"j", "e", "m", "a", "n", "d", "e", "s">>,
                           <<"e", "t", "w", "a", "s">>,
                           <<"j", "e", "m", "a", "n", "d", "e", "s", "/", "e", "t", "w", "a", "s">>}],
            \* "jdm./etw.": {"jemandem", "etwas", "jemandem/etwas"}
            [abbreviation |-> <<"j", "d", "m", ".", "/", "e", "t", "w", ".">>,
             synonyms |-> {<<"j", "e", "m", "a", "n", "d", "e", "m">>,
                           <<"e", "t", "w", "a", "s">>,
                           <<"j", "e", "m", "a", "n", "d", "e", "m", "/", "e", "t", "w", "a", "s">>}],
            \* "jdn./etw.": {"jemanden", "etwas", "jemanden/etwas"}
            [abbreviation |-> <<"j", "d", "n", ".", "/", "e", "t", "w", ".">>,
             synonyms |-> {<<"j", "e", "m", "a", "n", "d", "e", "n">>,
                           <<"e", "t", "w", "a", "s">>,
                           <<"j", "e", "m", "a", "n", "d", "e", "n", "/", "e", "t", "w", "a", "s">>}] >>]

\* The loop that builds self.find_abbreviations_exprs: one entry per language
\* with at least one abbreviation, holding the literals in dict order.
FindAbbreviationsExprs(synonyms) ==
    [l \in {k \in DOMAIN synonyms : Len(synonyms[k]) > 0} |->
        [i \in 1..Len(synonyms[l]) |-> synonyms[l][i].abbreviation]]

\* replacements_for_lang[abbreviation]
Synonyms(l, abbreviation) ==
    LET rows == abbreviations_synonyms[l]
        i == CHOOSE j \in 1..Len(rows) : rows[j].abbreviation = abbreviation
    IN  rows[i].synonyms

-----------------------------------------------------------------------------
(* FieldParser.get_possible_source_words: preparing the abbreviations *)

\* The literal optional_abbreviations, rebuilt by every call.
optional_abbreviations ==
    [l \in {"en", "de"} |->
        IF l = "en"
        THEN ("any" :> ("start_or_end" :>
                 {<<"s", "t", "h", ".">>,
                  <<"s", "b", ".">>,
                  <<"s", "b", ".", "'", "s">>,
                  <<"s", "b", ".", "/", "s", "t", "h", ".">>})
              @@ "verb" :> ("start" :> {<<"t", "o">>}))
        ELSE ("any" :> ("start_or_end" :>
                 {<<"j", "d", ".">>,
                  <<"j", "d", "s", ".">>,
                  <<"j", "d", "m", ".">>,
                  <<"j", "d", "n", ".">>,
                  <<"e", "t", "w", ".">>,
                  <<"j", "d", ".", "/", "e", "t", "w", ".">>,
                  <<"j", "d", "s", ".", "/", "e", "t", "w", ".">>,
                  <<"j", "d", "m", ".", "/", "e", "t", "w", ".">>,
                  <<"j", "d", "n", ".", "/", "e", "t", "w", ".">>}))]

\* PossibleAbbreviations for a literal that is built once and shared by the
\* calls of a session: what the calls made so far have added for their
\* classes stays in the tables of the language.
PossibleAbbreviationsKept(wclass, l, optional) ==
    IF ~optional \/ l \notin DOMAIN optional_abbreviations THEN EmptyDict
    ELSE LET classes == {wclass} \cup
                        {session[k].word_class :
                            k \in {j \in 1..call_no :
                                      /\ session[j].lang = l
                                      /\ session[j].make_abbreviations_optional}}
             kept == UNION {DictGet(DictGet(optional_abbreviations[l], class, EmptyDict),
                                    "start", {}) : class \in classes}
             start_or_end == optional_abbreviations[l]["any"]["start_or_end"]
         IN  ("start" :> (kept \cup start_or_end) @@ "end" :> start_or_end)

\* possible_abbreviations: a dict with keys among "start" and "end".
PossibleAbbreviations(wclass, l, optional) ==
    IF ~optional THEN EmptyDict
    ELSE
    LET lang_abbreviations == DictGet(optional_abbreviations, l, EmptyDict)
        any == DictGet(lang_abbreviations, "any", EmptyDict)
        of_class == DictGet(lang_abbreviations, wclass, EmptyDict)
        \* for where, values in lang_abbreviations.get(word_class, {}).items()
        merged == [where \in DOMAIN any \cup DOMAIN of_class |->
                      DictGet(any, where, {}) \cup DictGet(of_class, where, {})]
    IN  IF "start_or_end" \in DOMAIN merged
        THEN LET start_or_end_abbreviations == merged["start_or_end"]
                 popped == (DOMAIN merged) \ {"start_or_end"}
             IN  [where \in popped \cup {"start", "end"} |->
                     (IF where \in popped THEN merged[where] ELSE {})
                     \cup (IF where \in {"start", "end"}
                           THEN start_or_end_abbreviations ELSE {})]
        ELSE merged

-----------------------------------------------------------------------------
(* FieldParser.get_possible_source_words: iterating over the tokens *)

\* last_word_index: the index of the last Word token, 0 for Python's None
\* (tokens are numbered from 1).
LastWordIndex(toks) ==
    LET words == {i \in 1..Len(toks) : toks[i].type = "Word"}
    IN  IF words = {} THEN 0 ELSE CHOOSE i \in words : \A j \in words : j <= i

\* WithToken without the separating space.
WithTokenNoSeparator(word, value) == word \o value

\* f"{word} {token.value}"
WithToken(word, value) == word \o <<" ">> \o value

WalkState(sw, fw, aew) ==
    [source_words |-> sw, finished_words |-> fw, already_encountered_word |-> aew]

\* The last Word of the phrase, when it is in possible_abbreviations["end"]:
\* the words built so far are also finished without it.
EndAbbreviationStep(st, value) ==
    IF IsUnset(st.source_words)
    THEN WalkState(Some({value}), st.finished_words, TRUE)
    ELSE WalkState(Some({WithToken(word, value) : word \in Get(st.source_words)}),
                   st.finished_words \cup Get(st.source_words), TRUE)

\* StartAbbreviationStep that leaves the abbreviation out of the words built
\* so far instead of starting afresh.
StartAbbreviationStepKeepingPrefix(st, value) ==
    IF IsUnset(st.source_words)
    THEN WalkState(Some({value, <<>>}), st.finished_words, TRUE)
    ELSE WalkState(Some({WithToken(word, value) : word \in Get(st.source_words)}
                        \cup Get(st.source_words) \cup {value}),
                   st.finished_words, TRUE)

\* A Word in possible_abbreviations["start"] before any other Word: it is
\* appended, and the phrase may also start with it or after it.
StartAbbreviationStep(st, value) ==
    IF IsUnset(st.source_words)
    THEN WalkState(Some({value, <<>>}), st.finished_words, TRUE)
    ELSE WalkState(Some({WithToken(word, value) : word \in Get(st.source_words)}
                        \cup {value, <<>>}),
                   st.finished_words, TRUE)

\* Any other Word is appended to every word built so far.
WordStep(st, value) ==
    IF IsUnset(st.source_words)
    THEN WalkState(Some({value}), st.finished_words, TRUE)
    ELSE WalkState(Some({WithToken(word, value) : word \in Get(st.source_words)}),
                   st.finished_words, TRUE)

\* RoundStep with "=" for "|=": the Round is always kept.
RoundStepAlwaysKept(st, value) ==
    IF IsUnset(st.source_words)
    THEN WalkState(Some({value, <<>>}), st.finished_words,
                   st.already_encountered_word)
    ELSE WalkState(Some({WithToken(word, value) : word \in Get(st.source_words)}),
                   st.finished_words, st.already_encountered_word)

\* A Round is kept or left out.
RoundStep(st, value) ==
    IF IsUnset(st.source_words)
    THEN WalkState(Some({value, <<>>}), st.finished_words,
                   st.already_encountered_word)
    ELSE WalkState(Some(Get(st.source_words)
                        \cup {WithToken(word, value) : word \in Get(st.source_words)}),
                   st.finished_words, st.already_encountered_word)

\* One iteration of "for index, token in enumerate(tokens)".  Square, Curly
\* and Angle tokens match no branch.
TokenStep(st, i, token, last_word_index, possible_abbreviations, optional) ==
    LET abbreviation_case ==
            optional /\ possible_abbreviations # EmptyDict /\ token.type = "Word"
    IN  IF abbreviation_case /\ i = last_word_index
           /\ token.value \in DictGet(possible_abbreviations, "end", {})
        THEN EndAbbreviationStep(st, token.value)
        ELSE IF abbreviation_case /\ ~st.already_encountered_word
                /\ token.value \in DictGet(possible_abbreviations, "start", {})
        THEN StartAbbreviationStep(st, token.value)
        ELSE IF token.type = "Word" THEN WordStep(st, token.value)
        ELSE IF token.type = "Round" THEN RoundStep(st, token.value)
        ELSE st

\* The whole loop, from token i on.
RECURSIVE WalkTokens(_, _, _, _, _)
WalkTokens(st, i, toks, possible_abbreviations, optional) ==
    IF i > Len(toks) THEN st
    ELSE WalkTokens(TokenStep(st, i, toks[i], LastWordIndex(toks),
                              possible_abbreviations, optional),
                    i + 1, toks, possible_abbreviations, optional)

\* NormalizedWords that forgets finished_words.
NormalizedWordsWithoutFinished(sw, fw) ==
    LET all == IF IsUnset(sw) THEN {} ELSE Get(sw)
    IN  {JoinSplit(word) : word \in all} \ {<<>>}

\* After the loop: None becomes the empty set, the finished words are added,
\* every word is whitespace-normalized and the empty ones are dropped.
NormalizedWords(sw, fw) ==
    LET all == (IF IsUnset(sw) THEN {} ELSE Get(sw)) \cup fw
    IN  {JoinSplit(word) : word \in all} \ {<<>>}

-----------------------------------------------------------------------------
(* FieldParser.get_possible_source_words: replacing the abbreviations *)

\* SourceWord(word, has_replacements)
SourceWord(word, has_replacements) ==
    [word |-> word, has_replacements |-> has_replacements]

\* pp.WordStart() at position p: it fails when p is not the start of the
\* string and the character before is a word character (printable, that is,
\* not whitespace) or the character at p is not one.
WordStart(s, p) ==
    p <= Len(s) /\ (p = 1 \/ ~(~IsSpace(s[p - 1]) \/ IsSpace(s[p])))

\* WordEnd that holds everywhere: the literal is not required to end a word.
WordEndAnywhere(s, p) == TRUE

\* pp.WordEnd() at position p: it fails when p is inside the string and the
\* character at p is a word character or the one before is not.
WordEnd(s, p) ==
    p > Len(s) \/ ~(~IsSpace(s[p]) \/ IsSpace(s[p - 1]))

\* pp.Literal(abbreviation) at position p.
LiteralAt(s, p, literal) ==
    /\ p + Len(literal) - 1 <= Len(s)
    /\ Slice(s, p, p + Len(literal)) = literal

\* WordStart() + locMarker + Literal(abbreviation) + WordEnd() + endlocMarker,
\* whitespace left alone.
AbbreviationAt(s, p, abbreviation) ==
    WordStart(s, p) /\ LiteralAt(s, p, abbreviation)
    /\ WordEnd(s, p + Len(abbreviation))

\* The alternatives joined by "|": the first literal of exprs, from the k-th
\* on, that matches at p; <<>> when none does.
RECURSIVE FirstAbbreviation(_, _, _, _)
FirstAbbreviation(s, p, exprs, k) ==
    IF k > Len(exprs) THEN <<>>
    ELSE IF AbbreviationAt(s, p, exprs[k]) THEN exprs[k]
    ELSE FirstAbbreviation(s, p, exprs, k + 1)

\* find_abbreviations_expr.parse_string(word): ZeroOrMore(abbreviation | any
\* one character).  An item is an Abbreviation or a one-character str.
RECURSIVE FindAbbreviations(_, _, _)
FindAbbreviations(s, p, exprs) ==
    IF p > Len(s) THEN <<>>
    ELSE LET a == FirstAbbreviation(s, p, exprs, 1)
         IN  IF a # <<>>
             THEN <<[abbreviation |-> TRUE, value |-> a]>>
                  \o FindAbbreviations(s, p + Len(a), exprs)
             ELSE <<[abbreviation |-> FALSE, value |-> <<s[p]>>]>>
                  \o FindAbbreviations(s, p + 1, exprs)

\* current_replacements: every synonym, flagged, and the abbreviation itself.
CurrentReplacements(l, abbreviation) ==
    {SourceWord(syn, TRUE) : syn \in Synonyms(l, abbreviation)}
    \cup {SourceWord(abbreviation, FALSE)}

\* One iteration of "for sub_word in split_word" on build_words.
BuildStep(build_words, sub_word, l) ==
    IF ~sub_word.abbreviation
    THEN IF IsUnset(build_words)
         THEN Some({SourceWord(sub_word.value, FALSE)})
         ELSE Some({SourceWord(b.word \o sub_word.value, b.has_replacements) :
                        b \in Get(build_words)})
    ELSE IF IsUnset(build_words)
         THEN Some(CurrentReplacements(l, sub_word.value))
         ELSE Some({SourceWord(b.word \o r.word,
                               b.has_replacements \/ r.has_replacements) :
                        b \in Get(build_words),
                        r \in CurrentReplacements(l, sub_word.value)})

RECURSIVE BuildFrom(_, _, _, _)
BuildFrom(build_words, split_word, k, l) ==
    IF k > Len(split_word) THEN build_words
    ELSE BuildFrom(BuildStep(build_words, split_word[k], l), split_word, k + 1, l)

\* build_words for one word of source_words.
BuildWords(word, l) ==
    BuildFrom(Unset, FindAbbreviations(word, 1, find_abbreviations_exprs[l]), 1, l)

\* Every SourceWord built by "for word in source_words", after the normalizing
\* loop that follows it, or after the else branch.  They are kept as
\* (word, has_replacements) pairs, so two of them with one word and different
\* flags are both here; Returns says what the Python sets make of them.
ReturnWords(words, l, replace) ==
    IF replace /\ l \in DOMAIN find_abbreviations_exprs
    THEN LET built == UNION {IF IsUnset(BuildWords(word, l)) THEN {}
                             ELSE Get(BuildWords(word, l)) : word \in words}
         IN  {SourceWord(JoinSplit(b.word), b.has_replacements) : b \in built}
    ELSE {SourceWord(word, FALSE) : word \in words}

\* The returned set: SourceWord hashes and compares by word alone, so of
\* several SourceWords with one word return_words.update and the final set
\* comprehension keep the one they meet first; which one that is depends on
\* the iteration order of sets whose elements are hashed by str (hash
\* randomization), so each is possible.
Returns(rw) ==
    LET kept == {w \in rw : w.word # <<>>}
        both == {w.word : w \in {x \in kept : SourceWord(x.word, ~x.has_replacements) \in kept}}
    IN  {{w \in kept : w.word \notin both}
         \cup {SourceWord(word, flag[word]) : word \in both} :
            flag \in [both -> BOOLEAN]}

\* as_str=True
AsStr(ret) == {w.word : w \in ret}

\* return_words of a whole call, before the final comprehension.
AllReturnWords(f, wclass, l, optional, replace) ==
    LET toks == parse_tokens(f)
        st == WalkTokens(WalkState(Unset, {}, FALSE), 1, toks,
                         PossibleAbbreviations(wclass, l, optional), optional)
        words == NormalizedWords(st.source_words, st.finished_words)
    IN  ReturnWords(words, l, replace)

\* get_possible_source_words as a whole: every set it can return.
GetPossibleSourceWords(f, wclass, l, optional, replace) ==
    Returns(AllReturnWords(f, wclass, l, optional, replace))

-----------------------------------------------------------------------------
(* The calls of get_possible_source_words the model makes *)

\* A phrase is built from at most MaxPieces of these pieces.
MaxPieces == 3

Pieces == {
    <<"x">>,
    <<"x", " ">>,
    <<"t", "o", " ">>,
    <<"s", "b", ".">>,
    <<"s", "b", ".", " ">>,
    <<"(", "y", ")", " ">>,
    <<"(">>,
    <<")">>,
    <<"[", "z", "]", " ">>,
    <<"[">>,
    <<"]">>,
    <<" ">> }

RECURSIVE PhrasesOfLength(_)
PhrasesOfLength(n) ==
    IF n = 0 THEN {<<>>}
    ELSE {head \o piece : head \in PhrasesOfLength(n - 1), piece \in Pieces}

Phrases == UNION {PhrasesOfLength(n) : n \in 0..MaxPieces}

CallArgs(f, wclass, l, optional, replace) ==
    [field |-> f, word_class |-> wclass, lang |-> l,
     make_abbreviations_optional |-> optional, replace_abbreviations |-> replace]

\* The classes, languages and flags every built phrase is parsed with.
ArgumentChoices == {
    CallArgs(<<>>, None, "en", TRUE, TRUE),
    CallArgs(<<>>, "verb", "en", TRUE, TRUE),
    CallArgs(<<>>, "verb", "en", TRUE, FALSE),
    CallArgs(<<>>, None, "fr", TRUE, TRUE) }

\* The calls of FieldParser._test_get_source_words.
TestCalls == {
    \* "(wait) for me"
    CallArgs(<<"(", "w", "a", "i", "t", ")", " ", "f", "o", "r", " ", "m", "e">>,
             None, "en", TRUE, TRUE),
    \* "for me (myself)"
    CallArgs(<<"f", "o", "r", " ", "m", "e", " ", "(", "m", "y", "s", "e", "l", "f", ")">>,
             None, "en", TRUE, TRUE),
    \* "(wait) for me (myself)"
    CallArgs(<<"(", "w", "a", "i", "t", ")", " ", "f", "o", "r", " ", "m", "e", " ", "(", "m", "y", "s", "e", "l", "f", ")">>,
             None, "en", TRUE, TRUE),
    \* "to the detriment of"
    CallArgs(<<"t", "o", " ", "t", "h", "e", " ", "d", "e", "t", "r", "i", "m", "e", "n", "t", " ", "o", "f">>,
             None, "en", TRUE, TRUE),
    \* "to squirm"
    CallArgs(<<"t", "o", " ", "s", "q", "u", "i", "r", "m">>,
             "verb", "en", TRUE, TRUE),
    \* "to help sb."
    CallArgs(<<"t", "o", " ", "h", "e", "l", "p", " ", "s", "b", ".">>,
             "verb", "en", TRUE, TRUE),
    \* "sth. is off"
    CallArgs(<<"s", "t", "h", ".", " ", "i", "s", " ", "o", "f", "f">>,
             "verb", "en", TRUE, TRUE),
    \* "(go) to see the match"
    CallArgs(<<"(", "g", "o", ")", " ", "t", "o", " ", "s", "e", "e", " ", "t", "h", "e", " ", "m", "a", "t", "c", "h">>,
             "verb", "en", TRUE, TRUE),
    \* "(I think) sb. is running"
    CallArgs(<<"(", "I", " ", "t", "h", "i", "n", "k", ")", " ", "s", "b", ".", " ", "i", "s", " ", "r", "u", "n", "n", "i", "n", "g">>,
             "verb", "en", TRUE, TRUE),
    \* "(I think) sb. is running after sb."
    CallArgs(<<"(", "I", " ", "t", "h", "i", "n", "k", ")", " ", "s", "b", ".", " ", "i", "s", " ", "r", "u", "n", "n", "i", "n", "g", " ", "a", "f", "t", "e", "r", " ", "s", "b", ".">>,
             "verb", "en", TRUE, TRUE),
    \* "(I think) sb. is running after sb. (right?)"
    CallArgs(<<"(", "I", " ", "t", "h", "i", "n", "k", ")", " ", "s", "b", ".", " ", "i", "s", " ", "r", "u", "n", "n", "i", "n", "g", " ", "a", "f", "t", "e", "r", " ", "s", "b", ".", " ", "(", "r", "i", "g", "h", "t", "?", ")">>,
             "verb", "en", TRUE, TRUE),
    \* "sb."
    CallArgs(<<"s", "b", ".">>,
             None, "en", TRUE, TRUE),
    \* "(go to) sb."
    CallArgs(<<"(", "g", "o", " ", "t", "o", ")", " ", "s", "b", ".">>,
             None, "en", TRUE, TRUE),
    \* "(go) to sb."
    CallArgs(<<"(", "g", "o", ")", " ", "t", "o", " ", "s", "b", ".">>,
             "verb", "en", TRUE, TRUE),
    \* "(go) to sb."
    CallArgs(<<"(", "g", "o", ")", " ", "t", "o", " ", "s", "b", ".">>,
             None, "en", TRUE, TRUE),
    \* "to go to"
    CallArgs(<<"t", "o", " ", "g", "o", " ", "t", "o">>,
             None, "en", TRUE, TRUE),
    \* "to go to"
    CallArgs(<<"t", "o", " ", "g", "o", " ", "t", "o">>,
             "verb", "en", TRUE, TRUE),
    \* "(sb.) could help"
    CallArgs(<<"(", "s", "b", ".", ")", " ", "c", "o", "u", "l", "d", " ", "h", "e", "l", "p">>,
             None, "en", TRUE, TRUE),
    \* "see sb./sth."
    CallArgs(<<"s", "e", "e", " ", "s", "b", ".", "/", "s", "t", "h", ".">>,
             None, "en", TRUE, TRUE),
    \* "see sb."
    CallArgs(<<"s", "e", "e", " ", "s", "b", ".">>,
             None, "en", TRUE, TRUE) }

\* Further phrases: the other bracket kinds, other languages, the flags off.
FurtherCalls == {
    \* "(a) (b)"
    CallArgs(<<"(", "a", ")", " ", "(", "b", ")">>,
             None, "en", TRUE, TRUE),
    \* "x [y"
    CallArgs(<<"x", " ", "[", "y">>,
             None, "en", TRUE, TRUE),
    \* "x {y"
    CallArgs(<<"x", " ", "{", "y">>,
             None, "en", TRUE, TRUE),
    \* "x <y"
    CallArgs(<<"x", " ", "<", "y">>,
             None, "en", TRUE, TRUE),
    \* "x {y} z"
    CallArgs(<<"x", " ", "{", "y", "}", " ", "z">>,
             None, "en", TRUE, TRUE),
    \* "x <y> z"
    CallArgs(<<"x", " ", "<", "y", ">", " ", "z">>,
             None, "en", TRUE, TRUE),
    \* "a [b (c] d)"
    CallArgs(<<"a", " ", "[", "b", " ", "(", "c", "]", " ", "d", ")">>,
             None, "en", TRUE, TRUE),
    \* "(somebody) sb."
    CallArgs(<<"(", "s", "o", "m", "e", "b", "o", "d", "y", ")", " ", "s", "b", ".">>,
             None, "en", TRUE, TRUE),
    \* "jdm. etw. geben"
    CallArgs(<<"j", "d", "m", ".", " ", "e", "t", "w", ".", " ", "g", "e", "b", "e", "n">>,
             "verb", "de", TRUE, TRUE),
    \* "(jdm.) helfen"
    CallArgs(<<"(", "j", "d", "m", ".", ")", " ", "h", "e", "l", "f", "e", "n">>,
             None, "de", TRUE, TRUE),
    \* "to help sb."
    CallArgs(<<"t", "o", " ", "h", "e", "l", "p", " ", "s", "b", ".">>,
             "verb", "fr", TRUE, TRUE),
    \* "to help sb."
    CallArgs(<<"t", "o", " ", "h", "e", "l", "p", " ", "s", "b", ".">>,
             "verb", "en", FALSE, TRUE),
    \* "to help sb."
    CallArgs(<<"t", "o", " ", "h", "e", "l", "p", " ", "s", "b", ".">>,
             "verb", "en", FALSE, FALSE) }

Calls ==
    {[a EXCEPT !.field = f] : f \in Phrases, a \in ArgumentChoices}
    \cup TestCalls \cup FurtherCalls

-----------------------------------------------------------------------------
(* FieldParser as a state machine: one call of get_possible_source_words at  *)
(* a time, in the steps of its body                                          *)

ParserIdle ==
    /\ pc = "idle"
    /\ field = <<>> /\ word_class = None /\ lang = ""
    /\ make_abbreviations_optional = TRUE /\ replace_abbreviations = TRUE
    /\ tokens = <<>> /\ index = 0
    /\ source_words = Unset /\ finished_words = {}
    /\ already_encountered_word = FALSE
    /\ return_words = {} /\ result = {}

MainNotStarted ==
    /\ phase = "read" /\ input_file = <<>> /\ line_no = 0
    /\ dictionary = EmptyDict
    /\ translations_to_source_words = EmptyDict
    /\ glossary = {}

\* FieldParser.__init__
Constructed ==
    /\ abbreviations_synonyms = AbbreviationsSynonyms
    /\ find_abbreviations_exprs = FindAbbreviationsExprs(AbbreviationsSynonyms)

\* No caller that keeps the returned sets is running.
NoSession ==
    /\ session = <<>> /\ call_no = 0 /\ results = <<>>

Init == Constructed /\ ParserIdle /\ MainNotStarted /\ NoSession

\* get_possible_source_words is entered with its arguments.
Call ==
    /\ pc = "idle"
    /\ \E c \in Calls :
        /\ field' = c.field
        /\ word_class' = c.word_class
        /\ lang' = c.lang
        /\ make_abbreviations_optional' = c.make_abbreviations_optional
        /\ replace_abbreviations' = c.replace_abbreviations
    /\ tokens' = <<>> /\ index' = 0
    /\ source_words' = Unset /\ finished_words' = {}
    /\ already_encountered_word' = FALSE
    /\ return_words' = {} /\ result' = {}
    /\ pc' = "parse"
    /\ UNCHANGED <<tables, main_vars, caller_vars>>

\* tokens = self.parse_tokens(field) and the locals set before the loop.
Tokenize ==
    /\ pc = "parse"
    /\ tokens' = parse_tokens(field)
    /\ index' = 1
    /\ pc' = "walk"
    /\ UNCHANGED <<tables, main_vars, caller_vars, field, word_class, lang,
                   make_abbreviations_optional, replace_abbreviations,
                   source_words, finished_words, already_encountered_word,
                   return_words, result>>

\* One iteration of the loop over the tokens.
WalkToken ==
    /\ pc = "walk"
    /\ index <= Len(tokens)
    /\ LET st == TokenStep(WalkState(source_words, finished_words,
                                     already_encountered_word),
                           index, tokens[index], LastWordIndex(tokens),
                           PossibleAbbreviations(word_class, lang,
                                                 make_abbreviations_optional),
                           make_abbreviations_optional)
       IN  /\ source_words' = st.source_words
           /\ finished_words' = st.finished_words
           /\ already_encountered_word' = st.already_encountered_word
    /\ index' = index + 1
    /\ UNCHANGED <<tables, main_vars, caller_vars, pc, field, word_class, lang,
                   make_abbreviations_optional, replace_abbreviations,
                   tokens, return_words, result>>

\* After the loop: source_words becomes the set of normalized, non-empty words.
Normalize ==
    /\ pc = "walk"
    /\ index > Len(tokens)
    /\ source_words' = Some(NormalizedWords(source_words, finished_words))
    /\ pc' = "replace"
    /\ UNCHANGED <<tables, main_vars, caller_vars, field, word_class, lang,
                   make_abbreviations_optional, replace_abbreviations,
                   tokens, index, finished_words, already_encountered_word,
                   return_words, result>>

\* "if replace_abbreviations and lang in self.find_abbreviations_exprs" with
\* both of its branches.
ReplaceAbbreviations ==
    /\ pc = "replace"
    /\ return_words' = ReturnWords(Get(source_words), lang, replace_abbreviations)
    /\ pc' = "return"
    /\ UNCHANGED <<tables, main_vars, caller_vars, field, word_class, lang,
                   make_abbreviations_optional, replace_abbreviations,
                   tokens, index, source_words, finished_words,
                   already_encountered_word, result>>

\* The return statement.
Return ==
    /\ pc = "return"
    /\ \E ret \in Returns(return_words) : result' = ret
    /\ pc' = "done"
    /\ UNCHANGED <<tables, main_vars, caller_vars, field, word_class, lang,
                   make_abbreviations_optional, replace_abbreviations,
                   tokens, index, source_words, finished_words,
                   already_encountered_word, return_words>>

\* The caller has used the returned set; the frame of the call is gone.
Returned ==
    /\ pc = "done"
    /\ pc' = "idle"
    /\ field' = <<>> /\ word_class' = None /\ lang' = ""
    /\ make_abbreviations_optional' = TRUE /\ replace_abbreviations' = TRUE
    /\ tokens' = <<>> /\ index' = 0
    /\ source_words' = Unset /\ finished_words' = {}
    /\ already_encountered_word' = FALSE
    /\ return_words' = {} /\ result' = {}
    /\ UNCHANGED <<tables, main_vars, caller_vars>>

Next ==
    \/ Call
    \/ Tokenize
    \/ WalkToken
    \/ Normalize
    \/ ReplaceAbbreviations
    \/ Return
    \/ Returned

Spec == Init /\ [][Next]_vars

-----------------------------------------------------------------------------
(* main(): the lines of the input file *)

\* The source language main() is run with.
from_lang == "en"

Run == <<"r", "u", "n">>
Sprint == <<"s", "p", "r", "i", "n", "t">>
Jog == <<"j", "o", "g">>
SeeSb == <<"s", "e", "e", " ", "s", "b", ".">>
See == <<"s", "e", "e">>
SeeSomebody == <<"s", "e", "e", " ", "s", "o", "m", "e", "b", "o", "d", "y">>
SomebodySb == <<"(", "s", "o", "m", "e", "b", "o", "d", "y", ")", " ", "s", "b", ".">>
Laufen == <<"l", "a", "u", "f", "e", "n">>
LaufenCapital == <<"L", "a", "u", "f", "e", "n">>
Rennen == <<"R", "e", "n", "n", "e", "n">>

\* A line with at least two fields, after splitting at the tabs: the source
\* and target fields and the lower-cased class (None without a third field).
\* The source field is the one in from_lang.
Line(src, target, wclass) == [src |-> src, target |-> target, word_class |-> wclass]

Lines ==
    {Line(Run, Laufen, None), Line(Run, Laufen, "verb"),
     Line(Run, LaufenCapital, ""), Line(Run, LaufenCapital, "adv"),
     Line(Run, Rennen, "verb"), Line(Run, Rennen, "adj"),
     Line(Run, Rennen, "noun"),
     Line(Run, <<" ">>, None),
     Line(Sprint, Laufen, None),
     Line(Jog, Laufen, None),
     Line(SeeSb, Rennen, None),
     Line(SeeSomebody, LaufenCapital, None),
     Line(SomebodySb, Rennen, None)}

\* An input file has at most MaxLines such lines.
MaxLines == 3

RECURSIVE FilesOfLength(_)
FilesOfLength(n) ==
    IF n = 0 THEN {<<>>}
    ELSE {Append(head, line) : head \in FilesOfLength(n - 1), line \in Lines}

InputFiles == UNION {FilesOfLength(n) : n \in 0..MaxLines}

-----------------------------------------------------------------------------
(* main(): parsing the lines into the dictionary *)

\* DictEntry(translations, source_word_is_replacement)
DictEntry(translations, is_replacement) ==
    [translations |-> translations, source_word_is_replacement |-> is_replacement]

\* The body of "for possible_source_word in ...", for every word of the
\* returned set: the translation is appended to the word's entry (a new entry
\* starts as DictEntry([], None)) and the flags are or-ed.
InsertSourceWords(dict, ret, wclass, target) ==
    [key \in DOMAIN dict \cup AsStr(ret) |->
        IF key \notin AsStr(ret) THEN dict[key]
        ELSE LET has == (CHOOSE w \in ret : w.word = key).has_replacements
             IN  IF key \in DOMAIN dict
                 THEN DictEntry(Append(dict[key].translations, <<wclass, target>>),
                                dict[key].source_word_is_replacement \/ has)
                 ELSE DictEntry(<< <<wclass, target>> >>, has)]

\* One line of the file: the target is whitespace-normalized, a line with an
\* empty target is skipped, and the translation is entered under every
\* possible source word.
ParseLine ==
    /\ phase = "read"
    /\ line_no < Len(input_file)
    /\ line_no' = line_no + 1
    /\ LET line == input_file[line_no + 1]
           target == JoinSplit(line.target)
       IN  IF target = <<>>
           THEN dictionary' = dictionary
           ELSE \E ret \in GetPossibleSourceWords(line.src, line.word_class,
                                                  from_lang, TRUE, TRUE) :
                    dictionary' = InsertSourceWords(dictionary, ret,
                                                    line.word_class, target)
    /\ UNCHANGED <<tables, parser_vars, caller_vars, phase, input_file,
                   translations_to_source_words, glossary>>

-----------------------------------------------------------------------------
(* main(): eliminating duplicates *)

\* "not word_class"
IsEmptyClass(wclass) == wclass = None \/ wclass = ""

\* MergeTranslation where a later non-empty class replaces the class a
\* translation has.
MergeTranslationLastClass(translation_to_word_class, wclass, translation) ==
    IF translation \in DOMAIN translation_to_word_class /\ IsEmptyClass(wclass)
    THEN translation_to_word_class
    ELSE [tr \in DOMAIN translation_to_word_class \cup {translation} |->
             IF tr = translation THEN wclass ELSE translation_to_word_class[tr]]

\* One (word_class, translation) of an entry, entered into
\* translation_to_word_class.
MergeTranslation(translation_to_word_class, wclass, translation) ==
    IF translation \in DOMAIN translation_to_word_class
    THEN IF IsEmptyClass(wclass) THEN translation_to_word_class
         ELSE IF IsEmptyClass(translation_to_word_class[translation])
         THEN [translation_to_word_class EXCEPT ![translation] = wclass]
         ELSE translation_to_word_class
    ELSE [tr \in DOMAIN translation_to_word_class \cup {translation} |->
             IF tr = translation THEN wclass ELSE translation_to_word_class[tr]]

RECURSIVE MergeFrom(_, _, _)
MergeFrom(translation_to_word_class, translations, k) ==
    IF k > Len(translations) THEN translation_to_word_class
    ELSE MergeFrom(MergeTranslation(translation_to_word_class,
                                    translations[k][1], translations[k][2]),
                   translations, k + 1)

\* translation_to_word_class after "for word_class, translation in
\* entry.translations".
TranslationToWordClass(translations) == MergeFrom(EmptyDict, translations, 1)

\* The number a word class is replaced by.
ClassNumber(wclass) ==
    CASE wclass = "adj" -> 0
      [] wclass = "verb" -> 1
      [] wclass = "noun" -> 2
      [] OTHER -> 3

\* ord(c) for the characters of the translations.
Ord(c) ==
    CASE c = " " -> 32
      [] c = "L" -> 76
      [] c = "R" -> 82
      [] c = "a" -> 97
      [] c = "e" -> 101
      [] c = "f" -> 102
      [] c = "l" -> 108
      [] c = "n" -> 110
      [] c = "r" -> 114
      [] c = "u" -> 117

\* str.lower()
LowerChar(c) ==
    CASE c = "L" -> "l"
      [] c = "R" -> "r"
      [] OTHER -> c
Lower(s) == [i \in 1..Len(s) |-> LowerChar(s[i])]

\* a < b for two str: by code points, a proper prefix first.
RECURSIVE StrLess(_, _)
StrLess(a, b) ==
    IF Len(b) = 0 THEN FALSE
    ELSE IF Len(a) = 0 THEN TRUE
    ELSE IF Ord(a[1]) # Ord(b[1]) THEN Ord(a[1]) < Ord(b[1])
    ELSE StrLess(Tail(a), Tail(b))

\* The sort key (x[1], x[0].lower(), x[0]) of a compared to that of b.
SortKeyLess(numbers, a, b) ==
    \/ numbers[a] < numbers[b]
    \/ numbers[a] = numbers[b] /\ StrLess(Lower(a), Lower(b))
    \/ numbers[a] = numbers[b] /\ Lower(a) = Lower(b) /\ StrLess(a, b)

\* sorted(...) of the translations left, then the tuple of the texts.
RECURSIVE SortedTranslations(_, _)
SortedTranslations(numbers, left) ==
    IF left = {} THEN <<>>
    ELSE LET first == CHOOSE a \in left :
                          \A b \in left \ {a} : SortKeyLess(numbers, a, b)
         IN  <<first>> \o SortedTranslations(numbers, left \ {first})

\* The tuple "translations" of one dictionary entry.
ReducedTranslations(entry) ==
    LET translation_to_word_class == TranslationToWordClass(entry.translations)
        numbers == [tr \in DOMAIN translation_to_word_class |->
                       ClassNumber(translation_to_word_class[tr])]
    IN  SortedTranslations(numbers, DOMAIN numbers)

\* AddSourceWord with "=" for ".add": the set is replaced.
AddSourceWordOverwriting(groups, translations, member) ==
    [g \in DOMAIN groups \cup {translations} |->
        IF g = translations THEN {member} ELSE groups[g]]

\* translations_to_source_words[translations].add((src, is_replacement)) on
\* a defaultdict of sets.
AddSourceWord(groups, translations, member) ==
    [g \in DOMAIN groups \cup {translations} |->
        IF g = translations
        THEN (IF g \in DOMAIN groups THEN groups[g] ELSE {}) \cup {member}
        ELSE groups[g]]

\* The loop over dictionary.items(), for the keys left.
RECURSIVE GroupFrom(_, _, _)
GroupFrom(groups, dict, left) ==
    IF left = {} THEN groups
    ELSE LET src == CHOOSE key \in left : TRUE
         IN  GroupFrom(AddSourceWord(groups, ReducedTranslations(dict[src]),
                                     <<src, dict[src].source_word_is_replacement>>),
                       dict, left \ {src})

TranslationsToSourceWords(dict) == GroupFrom(EmptyDict, dict, DOMAIN dict)

\* The file is read to its end; the loop "Eliminating duplicates".
EliminateDuplicates ==
    /\ phase = "read"
    /\ line_no = Len(input_file)
    /\ translations_to_source_words' = TranslationsToSourceWords(dictionary)
    /\ phase' = "entries"
    /\ UNCHANGED <<tables, parser_vars, caller_vars, input_file, line_no, dictionary, glossary>>

-----------------------------------------------------------------------------
(* main(): creating the entries *)

\* FirstChoices that looks at the length alone.
LongestFirst(src_words) ==
    {m \in src_words : \A o \in src_words : Len(m[1]) >= Len(o[1])}

\* sorted(src_words, key=lambda x: (x[1], -len(x[0])))[0]: a member with the
\* least key; among members with equal keys the sort keeps the iteration
\* order of the set, so each of them can be first.
FirstChoices(src_words) ==
    {m \in src_words :
        \A o \in src_words :
            \/ ~m[2] /\ o[2]
            \/ m[2] = o[2] /\ Len(m[1]) >= Len(o[1])}

\* glossary.newEntry(word, definition) with the addAlt calls; the definition
\* is kept as the tuple of translations it lists.
GlossaryEntry(word, translations, alts) ==
    [word |-> word, defi |-> translations, alts |-> alts]

\* The loop "Creating entry", for the groups left: every glossary it can
\* build, with the first member each group loses.
RECURSIVE EntriesFrom(_, _)
EntriesFrom(groups, left) ==
    IF left = {} THEN {[glossary |-> {}, first |-> EmptyDict]}
    ELSE LET translations == CHOOSE g \in left : TRUE
         IN  {[glossary |->
                  rest.glossary
                  \cup {GlossaryEntry(m[1], translations,
                                      {o[1] : o \in groups[translations] \ {m}})},
               first |->
                  [g \in DOMAIN rest.first \cup {translations} |->
                      IF g = translations THEN m ELSE rest.first[g]]] :
                 rest \in EntriesFrom(groups, left \ {translations}),
                 m \in FirstChoices(groups[translations])}

\* One entry per key of translations_to_source_words; src_words.remove takes
\* the chosen member out of its set.
CreateEntries ==
    /\ phase = "entries"
    /\ \E made \in EntriesFrom(translations_to_source_words,
                               DOMAIN translations_to_source_words) :
          /\ glossary' = made.glossary
          /\ translations_to_source_words' =
                [g \in DOMAIN translations_to_source_words |->
                    translations_to_source_words[g] \ {made.first[g]}]
    /\ phase' = "written"
    /\ UNCHANGED <<tables, parser_vars, caller_vars, input_file, line_no, dictionary>>

InitMain ==
    /\ Constructed /\ ParserIdle /\ NoSession
    /\ phase = "read"
    /\ input_file \in InputFiles
    /\ line_no = 0
    /\ dictionary = EmptyDict
    /\ translations_to_source_words = EmptyDict
    /\ glossary = {}

NextMain ==
    \/ ParseLine
    \/ EliminateDuplicates
    \/ CreateEntries

SpecMain == InitMain /\ [][NextMain]_vars

-----------------------------------------------------------------------------
(* A caller that makes several calls on one FieldParser instance and keeps
   what they return, as _test_get_source_words does *)

GoToSb == <<"(", "g", "o", ")", " ", "t", "o", " ", "s", "b", ".">>
ToGoTo == <<"t", "o", " ", "g", "o", " ", "t", "o">>
JdmHelfen == <<"(", "j", "d", "m", ".", ")", " ", "h", "e", "l", "f", "e", "n">>

\* The calls a session is made of.
SessionCalls == {
    CallArgs(GoToSb, "verb", "en", TRUE, TRUE),
    CallArgs(GoToSb, None, "en", TRUE, TRUE),
    CallArgs(GoToSb, "noun", "en", TRUE, TRUE),
    CallArgs(GoToSb, None, "en", FALSE, TRUE),
    CallArgs(ToGoTo, "verb", "en", TRUE, TRUE),
    CallArgs(ToGoTo, None, "en", TRUE, TRUE),
    CallArgs(ToGoTo, "verb", "fr", TRUE, TRUE),
    CallArgs(JdmHelfen, "verb", "de", TRUE, TRUE),
    CallArgs(SomebodySb, "verb", "en", TRUE, TRUE) }

\* A session has at most MaxCalls calls.
MaxCalls == 3

RECURSIVE SessionsOfLength(_)
SessionsOfLength(n) ==
    IF n = 0 THEN {<<>>}
    ELSE {Append(head, c) : head \in SessionsOfLength(n - 1), c \in SessionCalls}

Sessions == UNION {SessionsOfLength(n) : n \in 0..MaxCalls}

\* The next call of the session enters get_possible_source_words.
SessionCall ==
    /\ pc = "idle"
    /\ call_no < Len(session)
    /\ call_no' = call_no + 1
    /\ LET c == session[call_no + 1]
       IN  /\ field' = c.field
           /\ word_class' = c.word_class
           /\ lang' = c.lang
           /\ make_abbreviations_optional' = c.make_abbreviations_optional
           /\ replace_abbreviations' = c.replace_abbreviations
    /\ tokens' = <<>> /\ index' = 0
    /\ source_words' = Unset /\ finished_words' = {}
    /\ already_encountered_word' = FALSE
    /\ return_words' = {} /\ result' = {}
    /\ pc' = "parse"
    /\ UNCHANGED <<tables, main_vars, session, results>>

\* The caller takes the returned set; the frame of the call is gone.
SessionReturned ==
    /\ pc = "done"
    /\ results' = Append(results, result)
    /\ pc' = "idle"
    /\ field' = <<>> /\ word_class' = None /\ lang' = ""
    /\ make_abbreviations_optional' = TRUE /\ replace_abbreviations' = TRUE
    /\ tokens' = <<>> /\ index' = 0
    /\ source_words' = Unset /\ finished_words' = {}
    /\ already_encountered_word' = FALSE
    /\ return_words' = {} /\ result' = {}
    /\ UNCHANGED <<tables, main_vars, session, call_no>>

InitSession ==
    /\ Constructed /\ ParserIdle /\ MainNotStarted
    /\ session \in Sessions
    /\ call_no = 0
    /\ results = <<>>

NextSession ==
    \/ SessionCall
    \/ Tokenize
    \/ WalkToken
    \/ Normalize
    \/ ReplaceAbbreviations
    \/ Return
    \/ SessionReturned

SpecSession == InitSession /\ [][NextSession]_vars


-----------------------------------------------------------------------------
(* What the properties of the parser are stated with *)

\* The whole phrase was tokenized: parsing stopped at its end.
FullyParsed(s) == SkipWhitespace(s, ParseFrom(s, 1).stop) > Len(s)

WordIndices(toks) == {i \in 1..Len(toks) : toks[i].type = "Word"}
RoundIndices(toks) == {i \in 1..Len(toks) : toks[i].type = "Round"}

FirstWordIndex(toks) ==
    IF WordIndices(toks) = {} THEN 0
    ELSE CHOOSE i \in WordIndices(toks) : \A j \in WordIndices(toks) : i <= j

\* The abbreviations of a language, as its synonym table lists them.
AbbreviationsOf(l) ==
    IF l \in DOMAIN AbbreviationsSynonyms
    THEN {AbbreviationsSynonyms[l][i].abbreviation :
              i \in 1..Len(AbbreviationsSynonyms[l])}
    ELSE {}

\* The start-optional and end-optional sets for a language and class.
OptionalAtStart(wclass, l) ==
    AbbreviationsOf(l)
    \cup (IF l = "en" /\ wclass = "verb" THEN {<<"t", "o">>} ELSE {})
OptionalAtEnd(wclass, l) == AbbreviationsOf(l)

\* Token i is a Word that stands where it may be left out.
IsOptionalWord(toks, i, wclass, l, optional) ==
    /\ optional
    /\ toks[i].type = "Word"
    /\ \/ i = LastWordIndex(toks) /\ toks[i].value \in OptionalAtEnd(wclass, l)
       \/ i = FirstWordIndex(toks) /\ toks[i].value \in OptionalAtStart(wclass, l)

\* The texts of the Words and of the Rounds in kept, in order.
RECURSIVE KeptValues(_, _, _)
KeptValues(toks, i, kept) ==
    IF i > Len(toks) THEN <<>>
    ELSE (IF toks[i].type = "Word" \/ i \in kept
          THEN <<toks[i].value>> ELSE <<>>)
         \o KeptValues(toks, i + 1, kept)

\* One string per subset of the Rounds: every Word and the chosen Rounds,
\* joined by single spaces and whitespace-normalized.
Combination(toks, kept) == JoinSplit(Join(KeptValues(toks, 1, kept)))
Combinations(toks) ==
    {Combination(toks, kept) : kept \in SUBSET RoundIndices(toks)}
SubsetCandidates(toks) == Combinations(toks) \ {<<>>}

\* A whitespace-delimited part of word is an abbreviation of the language.
HasAbbreviation(word, l) ==
    \E k \in 1..Len(Split(word)) : Split(word)[k] \in AbbreviationsOf(l)

\* No candidate of the phrase can be changed by replacing abbreviations.
NoReplacement(toks, l, replace) ==
    \/ ~replace
    \/ \A c \in SubsetCandidates(toks) : ~HasAbbreviation(c, l)

NoOptionalWord(toks, wclass, l, optional) ==
    \A i \in 1..Len(toks) : ~IsOptionalWord(toks, i, wclass, l, optional)

-----------------------------------------------------------------------------
(* C1 *)

C1_Applies ==
    /\ pc = "done"
    /\ FullyParsed(field)
    /\ \A i \in 1..Len(tokens) : tokens[i].type \in {"Word", "Round"}
    /\ NoOptionalWord(tokens, word_class, lang, make_abbreviations_optional)
    /\ NoReplacement(tokens, lang, replace_abbreviations)

\* C1: a phrase of Words and top-level Rounds only, none of its Words an
\* optional abbreviation and no abbreviation to replace, returns exactly the
\* strings that keep every Word in order and any subset of the Rounds, joined
\* by single spaces, whitespace-normalized, without the empty string; with no
\* Round and at least one Word that is the one whitespace-normalized phrase.
C1_SubsetsOfRounds ==
    C1_Applies =>
        /\ AsStr(result) = SubsetCandidates(tokens)
        /\ (RoundIndices(tokens) = {} /\ WordIndices(tokens) # {}
                => AsStr(result) = {JoinSplit(field)})

C1_Witness ==
    /\ C1_Applies
    /\ Cardinality(RoundIndices(tokens)) >= 2
    /\ WordIndices(tokens) # {}
    /\ Cardinality(result) >= 4

-----------------------------------------------------------------------------
(* C2 *)

TokenValues(toks) == [i \in 1..Len(toks) |-> toks[i].value]

\* w1 is optionally left out when it is start-optional, wk when it is
\* end-optional; nothing else is left out.
BoundaryCandidates(values, wclass, l) ==
    LET k == Len(values)
        firsts == IF values[1] \in OptionalAtStart(wclass, l) THEN {1, 2} ELSE {1}
        lasts == IF values[k] \in OptionalAtEnd(wclass, l) THEN {k - 1, k} ELSE {k}
    IN  {Join(SubSeq(values, a, b)) : a \in firsts, b \in lasts} \ {<<>>}

ToHelpSb == <<"t", "o", " ", "h", "e", "l", "p", " ", "s", "b", ".">>
ToHelpSbCandidates == {
    <<"t", "o", " ", "h", "e", "l", "p">>,
    <<"h", "e", "l", "p">>,
    <<"t", "o", " ", "h", "e", "l", "p", " ", "s", "b", ".">>,
    <<"h", "e", "l", "p", " ", "s", "b", ".">>,
    <<"t", "o", " ", "h", "e", "l", "p", " ", "s", "o", "m", "e", "b", "o", "d", "y">>,
    <<"h", "e", "l", "p", " ", "s", "o", "m", "e", "b", "o", "d", "y">> }

\* The call has passed the loop over the tokens of a bracket-free phrase in a
\* known language: source_words holds the candidates before the replacement.
C2_Applies ==
    /\ pc \in {"replace", "return", "done"}
    /\ make_abbreviations_optional
    /\ lang \in {"en", "de"}
    /\ FullyParsed(field)
    /\ tokens # <<>>
    /\ \A i \in 1..Len(tokens) : tokens[i].type = "Word"

\* C2: for a bracket-free phrase of k >= 2 words in a known language the
\* candidates before the replacement are the non-empty strings got by
\* optionally leaving out w1 if it is start-optional and wk if it is
\* end-optional (never an inner word); a single optional abbreviation yields
\* itself; and "to help sb." as an English verb returns the six strings
\* "to help", "help", "to help sb.", "help sb.", "to help somebody",
\* "help somebody".
C2_BoundaryAbbreviations ==
    /\ C2_Applies /\ Len(tokens) >= 2 =>
          /\ Get(source_words)
                = BoundaryCandidates(TokenValues(tokens), word_class, lang)
          /\ (pc = "done" /\ ~replace_abbreviations
                => AsStr(result)
                     = BoundaryCandidates(TokenValues(tokens), word_class, lang))
    /\ C2_Applies /\ Len(tokens) = 1
          /\ IsOptionalWord(tokens, 1, word_class, lang, TRUE)
          => Get(source_words) = {tokens[1].value}
    /\ pc = "done" /\ field = ToHelpSb /\ word_class = "verb" /\ lang = "en"
          /\ make_abbreviations_optional /\ replace_abbreviations
          => AsStr(result) = ToHelpSbCandidates

\* A verb of three words whose first and last are left out optionally and
\* whose inner word is an abbreviation that stays.
C2_Witness ==
    /\ C2_Applies /\ pc = "done" /\ ~replace_abbreviations
    /\ Len(tokens) = 3
    /\ tokens[1].value = <<"t", "o">>
    /\ tokens[2].value \in AbbreviationsOf(lang)
    /\ tokens[3].value \in AbbreviationsOf(lang)
    /\ Cardinality(result) = 4

-----------------------------------------------------------------------------
(* C3 *)

\* What one whitespace-delimited part may become: itself, or, when it is an
\* abbreviation, any one of its synonyms (flagged).
PartChoices(part, l) ==
    {SourceWord(part, FALSE)}
    \cup (IF part \in AbbreviationsOf(l)
          THEN {SourceWord(syn, TRUE) :
                   syn \in UNION {AbbreviationsSynonyms[l][i].synonyms :
                                     i \in {j \in 1..Len(AbbreviationsSynonyms[l]) :
                                              AbbreviationsSynonyms[l][j].abbreviation = part}}}
          ELSE {})

\* Every combination of choices for the parts of a normalized string.
RECURSIVE ExpansionsOfParts(_, _)
ExpansionsOfParts(parts, l) ==
    IF Len(parts) = 0 THEN {}
    ELSE IF Len(parts) = 1 THEN PartChoices(parts[1], l)
    ELSE {SourceWord(h.word \o <<" ">> \o t.word,
                     h.has_replacements \/ t.has_replacements) :
             h \in PartChoices(parts[1], l),
             t \in ExpansionsOfParts(Tail(parts), l)}

ExpectedExpansions(c, l) == ExpansionsOfParts(Split(c), l)

\* C3: in a language with a synonym table, each candidate is expanded to
\* exactly the strings got by replacing each whole-word abbreviation in it by
\* itself or by one of its synonyms, in every combination and with the text
\* between them unchanged, and a string is flagged exactly when a synonym was
\* used on the way to it.
C3_ExpanderCombinations ==
    /\ pc = "replace" /\ replace_abbreviations
          /\ lang \in DOMAIN abbreviations_synonyms
          => \A c \in Get(source_words) :
                BuildWords(c, lang) = Some(ExpectedExpansions(c, lang))
    /\ pc = "return" /\ replace_abbreviations
          /\ lang \in DOMAIN abbreviations_synonyms
          => return_words
               = UNION {ExpectedExpansions(c, lang) : c \in Get(source_words)}

\* A candidate with two abbreviations, expanded to a string that replaces one
\* of them and keeps the other.
C3_Witness ==
    /\ pc = "return" /\ replace_abbreviations
    /\ \E w \in return_words :
          /\ w.has_replacements
          /\ HasAbbreviation(w.word, lang)
          /\ Len(Split(w.word)) = 2

-----------------------------------------------------------------------------
(* C4 *)

\* The top-level bracket segments of s from loc on: [open, start, end] with
\* open the opening bracket, start its position and end the position after
\* the closing one.
RECURSIVE SegmentsFrom(_, _)
SegmentsFrom(s, loc) ==
    LET w == WordRule(s, loc)
        b == FirstBracket(s, loc, 1)
    IN  IF w # 0 THEN SegmentsFrom(s, w)
        ELSE IF b.end # 0
        THEN {[open |-> s[SkipWhitespace(s, loc)],
               start |-> SkipWhitespace(s, loc), end |-> b.end]}
             \cup SegmentsFrom(s, b.end)
        ELSE {}

NonRoundSegments(s) == {g \in SegmentsFrom(s, 1) : g.open \in {"[", "{", "<"}}

\* s with the inner text of segment g replaced by content.
WithContent(s, g, content) ==
    Slice(s, 1, g.start + 1) \o content \o Slice(s, g.end - 1, Len(s) + 1)

\* content, put between the brackets of g, is again one segment.
WellFormedIn(s, g, content) ==
    Bracket(<<s[g.start]>> \o content \o <<s[g.end - 1]>>, 1,
            s[g.start], s[g.end - 1]) = Len(content) + 3

OtherContents == {
    <<>>,
    <<"q">>,
    <<"t", "o">>,
    <<"s", "b", ".">>,
    <<" ", "q", " ", " ", "s", "b", ".">>,
    <<"(">>,
    <<")">>,
    <<"[", "q", "]">>,
    <<"]">>,
    <<">">> }

\* C4: replacing the inner text of a top-level Square, Curly or Angle segment
\* by other content that leaves it one segment does not change what the call
\* can return, whatever the class, the language and the flags.
C4_NonRoundInvisible ==
    pc = "done" =>
        \A g \in NonRoundSegments(field) :
            \A content \in OtherContents :
                WellFormedIn(field, g, content) =>
                    GetPossibleSourceWords(WithContent(field, g, content),
                                           word_class, lang,
                                           make_abbreviations_optional,
                                           replace_abbreviations)
                        = Returns(return_words)

\* A Square segment before an end-optional abbreviation.
C4_Witness ==
    /\ pc = "done"
    /\ \E g \in NonRoundSegments(field) : g.open = "[" /\ g.start = 1
    /\ Len(tokens) = 3
    /\ IsOptionalWord(tokens, 3, word_class, lang, make_abbreviations_optional)
    /\ Cardinality(result) >= 2

-----------------------------------------------------------------------------
(* C8 *)

ClosingBrackets == {")", "]", "}", ">"}

\* An opening bracket without its closing bracket stops the tokenizer; a
\* closing bracket at top level is inside a Word.
HasUnmatchedBracket(s) ==
    \/ ~FullyParsed(s)
    \/ \E i \in 1..Len(parse_tokens(s)) :
          /\ parse_tokens(s)[i].type = "Word"
          /\ \E k \in 1..Len(parse_tokens(s)[i].value) :
                parse_tokens(s)[i].value[k] \in ClosingBrackets

\* C8: a phrase with an unmatched opening bracket, or an unmatched closing
\* bracket at top level, is rejected: no candidate is produced from it or
\* from any part of it.
C8_UnbalancedYieldsNothing ==
    pc = "done" /\ HasUnmatchedBracket(field) => result = {}

-----------------------------------------------------------------------------
(* C10 *)

\* A fully tokenized phrase without abbreviations whose 2^n combinations of
\* its n Rounds are pairwise distinct.
C10_Applies ==
    /\ pc = "done"
    /\ FullyParsed(field)
    /\ NoOptionalWord(tokens, word_class, lang, make_abbreviations_optional)
    /\ NoReplacement(tokens, lang, replace_abbreviations)
    /\ Cardinality(Combinations(tokens)) = 2 ^ Cardinality(RoundIndices(tokens))

\* C10 as claimed: such a phrase returns exactly 2^n candidates, also when it
\* has no Word.
C10_AlwaysPowerOfTwo ==
    C10_Applies => Cardinality(result) = 2 ^ Cardinality(RoundIndices(tokens))

\* C10, amended: such a phrase returns exactly 2^n candidates when it has a
\* Word, and 2^n - 1 when it has none: the combination that leaves out every
\* Round is then the empty string, which is dropped.
C10_PowerOfTwoWithWord ==
    C10_Applies =>
        Cardinality(result)
            = IF WordIndices(tokens) # {}
              THEN 2 ^ Cardinality(RoundIndices(tokens))
              ELSE 2 ^ Cardinality(RoundIndices(tokens)) - 1

\* Two Rounds and no Word: three candidates.
C10_Witness ==
    /\ C10_Applies
    /\ WordIndices(tokens) = {}
    /\ Cardinality(RoundIndices(tokens)) = 2
    /\ Cardinality(result) = 3

-----------------------------------------------------------------------------
(* What the properties of main() are stated with *)

\* The lines up to line_no that were entered into the dictionary.
InsertedLines ==
    {input_file[k] : k \in {j \in 1..line_no : JoinSplit(input_file[j].target) # <<>>}}

\* The translations entered under a dictionary key, in the order of the file.
TranslationsOf(key) == dictionary[key].translations
TextsOf(key) == {TranslationsOf(key)[k][2] : k \in 1..Len(TranslationsOf(key))}

\* The tuple a key is grouped by.
TupleOf(key) == ReducedTranslations(dictionary[key])

\* The groups as the loop "Eliminating duplicates" leaves them.
GroupsBuilt == TranslationsToSourceWords(dictionary)

\* The keys of a set of (src, is_replacement) members.
KeysIn(members) == {m[1] : m \in members}

\* The members of the group an emitted entry stands for.
EntryKeys(e) == {e.word} \cup e.alts

-----------------------------------------------------------------------------
(* C5 *)

\* C5: once the whole dictionary has been grouped, every dictionary key is a
\* member of exactly one group, the members of a group all have the group's
\* tuple as their reduced ordered translation tuple, and keys of different
\* groups have different tuples.  After the entries are created the same
\* holds of the groups as the entries show them (headword and alternates).
C5_GroupsPartitionKeys ==
    /\ phase = "entries" =>
          LET groups == translations_to_source_words
          IN  /\ \A key \in DOMAIN dictionary :
                    Cardinality({gm \in {<<g, m>> : g \in DOMAIN groups,
                                                   m \in UNION {groups[h] : h \in DOMAIN groups}} :
                                    gm[2] \in groups[gm[1]] /\ gm[2][1] = key}) = 1
              /\ \A g \in DOMAIN groups :
                    /\ groups[g] # {}
                    /\ \A m \in groups[g] :
                          m[1] \in DOMAIN dictionary /\ TupleOf(m[1]) = g
              /\ \A g1 \in DOMAIN groups, g2 \in DOMAIN groups :
                    g1 # g2 =>
                       \A m1 \in groups[g1], m2 \in groups[g2] :
                          TupleOf(m1[1]) # TupleOf(m2[1])
    /\ phase = "written" =>
          /\ \A key \in DOMAIN dictionary :
                Cardinality({e \in glossary : key \in EntryKeys(e)}) = 1
          /\ \A e \in glossary :
                \A key \in EntryKeys(e) :
                   key \in DOMAIN dictionary /\ TupleOf(key) = e.defi
          /\ \A e1 \in glossary, e2 \in glossary :
                e1 # e2 =>
                   \A k1 \in EntryKeys(e1), k2 \in EntryKeys(e2) :
                      TupleOf(k1) # TupleOf(k2)

\* C5: the dictionary has been grouped into two groups, one of them with the
\* three keys of "see sb.".
C5_Witness ==
    /\ phase = "entries"
    /\ Cardinality(DOMAIN translations_to_source_words) = 2
    /\ \E g \in DOMAIN translations_to_source_words :
          {See, SeeSb, SeeSomebody} \subseteq KeysIn(translations_to_source_words[g])

-----------------------------------------------------------------------------
(* C6 *)

\* What C6 says of the entry e emitted for the group with these members.
CanonicalOf(e, members) ==
    \E m \in members :
       /\ m[1] = e.word
       /\ (\E o \in members : ~o[2]) => ~m[2]
       /\ \A o \in members : o[2] = m[2] => Len(o[1]) <= Len(m[1])
       /\ e.alts = KeysIn(members \ {m})
       /\ e.word \notin e.alts

\* C6: when the entries are created there is exactly one entry per group; its
\* headword is a member of the group, is a member without replacements if
\* the group has one, and is as long as any member with the same flag; its
\* alternates are exactly the other members, and the group's set has lost the
\* headword alone.  "run" and "sprint" alone under ("laufen",) give the entry
\* "sprint" with the alternate "run".
C6_OneCanonicalPerGroup ==
    phase = "written" =>
       /\ DOMAIN translations_to_source_words = DOMAIN GroupsBuilt
       /\ \A e \in glossary : e.defi \in DOMAIN GroupsBuilt
       /\ \A g \in DOMAIN GroupsBuilt :
             /\ Cardinality({e \in glossary : e.defi = g}) = 1
             /\ \A e \in glossary :
                   e.defi = g =>
                      /\ CanonicalOf(e, GroupsBuilt[g])
                      /\ KeysIn(translations_to_source_words[g]) = e.alts
       /\ (/\ <<Laufen>> \in DOMAIN GroupsBuilt
           /\ KeysIn(GroupsBuilt[<<Laufen>>]) = {Run, Sprint})
          => GlossaryEntry(Sprint, <<Laufen>>, {Run}) \in glossary

\* C6: the entries are created for "run" and "sprint" under ("laufen",) and
\* for a group whose longest member "see somebody" has replacements.
C6_Witness ==
    /\ phase = "written"
    /\ GlossaryEntry(Sprint, <<Laufen>>, {Run}) \in glossary
    /\ GlossaryEntry(SeeSb, <<Rennen>>, {See, SeeSomebody}) \in glossary
    /\ dictionary[SeeSomebody].source_word_is_replacement

-----------------------------------------------------------------------------
(* C7 *)

\* The occurrences of a text among a key's translations, and those with a
\* class.
Occurrences(key, text) ==
    {k \in 1..Len(TranslationsOf(key)) : TranslationsOf(key)[k][2] = text}
Tagged(key, text) ==
    {k \in Occurrences(key, text) : TranslationsOf(key)[k][1] \notin {None, ""}}

\* The first non-empty class of a text, None if it has none.
AttachedClass(key, text) ==
    IF Tagged(key, text) = {} THEN None
    ELSE TranslationsOf(key)[CHOOSE k \in Tagged(key, text) :
                                \A j \in Tagged(key, text) : k <= j][1]

\* adjective(0) < verb(1) < noun(2) < other/none(3), on the class tags of
\* the input file.
ClassPriority(wclass) ==
    IF wclass = "adj" THEN 0
    ELSE IF wclass = "verb" THEN 1
    ELSE IF wclass = "noun" THEN 2
    ELSE 3

\* a comes before b in lexical order.
Precedes(a, b) ==
    \E k \in 1..Len(b) :
       /\ k <= Len(a) + 1
       /\ \A j \in 1..(k - 1) : a[j] = b[j]
       /\ k = Len(a) + 1 \/ Ord(a[k]) < Ord(b[k])

\* The order C7 gives two texts of a key.
OrderedBefore(key, a, b) ==
    LET pa == ClassPriority(AttachedClass(key, a))
        pb == ClassPriority(AttachedClass(key, b))
    IN  \/ pa < pb
        \/ pa = pb /\ Precedes(Lower(a), Lower(b))
        \/ pa = pb /\ Lower(a) = Lower(b) /\ Precedes(a, b)

\* C7: once the dictionary has been grouped, every key is a member of a
\* group, and the tuple of a member's group lists each distinct text entered
\* under the key exactly once, ordered by the priority of the first non-empty
\* class of the text, then by the lower-cased text, then by the text.
C7_MergedTuple ==
    phase \in {"entries", "written"} =>
       /\ \A key \in DOMAIN dictionary :
             \E g \in DOMAIN GroupsBuilt : key \in KeysIn(GroupsBuilt[g])
       /\ \A g \in DOMAIN GroupsBuilt :
             \A key \in KeysIn(GroupsBuilt[g]) :
                /\ {g[k] : k \in 1..Len(g)} = TextsOf(key)
                /\ Len(g) = Cardinality(TextsOf(key))
                /\ \A i \in 1..Len(g), j \in 1..Len(g) :
                      i < j => OrderedBefore(key, g[i], g[j])
       /\ phase = "entries" => translations_to_source_words = GroupsBuilt

\* C7: "run" has "Rennen" first as a verb and then as an adjective, and
\* "laufen" as a verb; "laufen" comes first in its tuple.
C7_Witness ==
    /\ phase = "entries"
    /\ Run \in DOMAIN dictionary
    /\ TranslationsOf(Run) = << <<"verb", Rennen>>, <<"adj", Rennen>>, <<"verb", Laufen>> >>
    /\ <<Laufen, Rennen>> \in DOMAIN translations_to_source_words

-----------------------------------------------------------------------------
(* C9 *)

\* Some line entered so far has built the word with a replacement.
BuiltWithReplacement(key) ==
    \E line \in InsertedLines :
       SourceWord(key, TRUE) \in AllReturnWords(line.src, line.word_class,
                                                from_lang, TRUE, TRUE)

\* C9: the flag stored for a dictionary key is true exactly if some line
\* entered so far has built the key with a replacement.  (Does not hold: of
\* "(somebody) sb." the returned set holds "somebody" once, with the flag of
\* whichever SourceWord the sets met first.)
C9_FlagIsOrOfPaths ==
    \A key \in DOMAIN dictionary :
       dictionary[key].source_word_is_replacement <=> BuiltWithReplacement(key)

-----------------------------------------------------------------------------
(* C11 *)

\* The words a call builds both with and without a replacement: the flag
\* they are returned with is that of the SourceWord the sets met first.
BuiltBothWays(c) ==
    LET built == AllReturnWords(c.field, c.word_class, c.lang,
                                c.make_abbreviations_optional, c.replace_abbreviations)
    IN  {w.word : w \in {x \in built : SourceWord(x.word, ~x.has_replacements) \in built}}

\* Two returned sets of the call c are the same: the same words, and the
\* same flag for every word that is not built both ways.
SameResult(c, r1, r2) ==
    /\ AsStr(r1) = AsStr(r2)
    /\ \A w \in r1 : w \in r2 \/ w.word \in BuiltBothWays(c)

\* The words of a returned string.
WordsOf(word) == {Split(word)[k] : k \in 1..Len(Split(word))}

\* What "(go) to sb." returns with class None (_test_get_source_words).
GoToSbWithoutClass ==
    {<<"g", "o", " ", "t", "o", " ", "s", "b", ".">>,
     <<"g", "o", " ", "t", "o", " ", "s", "o", "m", "e", "b", "o", "d", "y">>,
     <<"g", "o", " ", "t", "o">>,
     <<"t", "o", " ", "s", "o", "m", "e", "b", "o", "d", "y">>,
     <<"t", "o", " ", "s", "b", ".">>,
     <<"t", "o">>}

\* C11: in a session of calls on one instance the abbreviation tables stay as
\* constructed, two calls with the same arguments return the same set
\* wherever they stand in the session, a call with a class other than verb
\* never drops the leading "to" of its phrase, whatever was called before,
\* and "(go) to sb." with class None returns its six strings with "to".
\* (results changes when a call has returned, so it is looked at then.)
C11_CallsIndependent ==
    /\ abbreviations_synonyms = AbbreviationsSynonyms
    /\ find_abbreviations_exprs = FindAbbreviationsExprs(AbbreviationsSynonyms)
    /\ Len(results) <= call_no /\ call_no <= Len(session)
    /\ pc = "idle" =>
          /\ \A i \in 1..Len(results), j \in 1..Len(results) :
                session[i] = session[j] =>
                   SameResult(session[i], results[i], results[j])
          /\ \A i \in 1..Len(results) :
                /\ session[i].word_class # "verb" =>
                      \A word \in AsStr(results[i]) : <<"t", "o">> \in WordsOf(word)
                /\ session[i] = CallArgs(GoToSb, None, "en", TRUE, TRUE) =>
                      AsStr(results[i]) = GoToSbWithoutClass

\* C11: "(go) to sb." has been called with class verb, where "to" is dropped,
\* and then with class None.
C11_Witness ==
    /\ session = <<CallArgs(GoToSb, "verb", "en", TRUE, TRUE),
                   CallArgs(GoToSb, None, "en", TRUE, TRUE)>>
    /\ Len(results) = 2
    /\ <<"s", "b", ".">> \in AsStr(results[1])
    /\ AsStr(results[2]) = GoToSbWithoutClass

-----------------------------------------------------------------------------
(* C12 *)

\* The first Word is in the start-optional set, the last Word in the
\* end-optional set.
LeadingIsStartOptional(toks, wclass, l, optional) ==
    /\ optional
    /\ FirstWordIndex(toks) # 0
    /\ toks[FirstWordIndex(toks)].value \in OptionalAtStart(wclass, l)
TrailingIsEndOptional(toks, wclass, l, optional) ==
    /\ optional
    /\ LastWordIndex(toks) # 0
    /\ toks[LastWordIndex(toks)].value \in OptionalAtEnd(wclass, l)

\* The texts of the tokens in kept, in order, as one normalized string.
RECURSIVE TextsOfKept(_, _, _)
TextsOfKept(toks, i, kept) ==
    IF i > Len(toks) THEN <<>>
    ELSE (IF i \in kept THEN <<toks[i].value>> ELSE <<>>)
         \o TextsOfKept(toks, i + 1, kept)
Selection(toks, kept) == JoinSplit(Join(TextsOfKept(toks, 1, kept)))

\* kept is a choice of Words and Rounds that leaves out no Word but a
\* boundary abbreviation, and is truncated where it leaves one out: without
\* the leading abbreviation it has no Round before it, without the trailing
\* abbreviation no Round after it.
Truncated(toks, kept, at_start, at_end) ==
    LET s == FirstWordIndex(toks)
        e == LastWordIndex(toks)
    IN  /\ \A i \in WordIndices(toks) :
              i \in kept \/ (at_start /\ i = s) \/ (at_end /\ i = e)
        /\ (at_start /\ s \notin kept) =>
              \A i \in RoundIndices(toks) : i \in kept => i > s
        /\ (at_end /\ e \notin kept) =>
              \A i \in RoundIndices(toks) : i \in kept => i < e

\* Every candidate is the string of a truncated choice.
CandidatesTruncated(cands, toks, at_start, at_end) ==
    \A c \in cands :
       \E kept \in SUBSET (WordIndices(toks) \cup RoundIndices(toks)) :
          /\ Selection(toks, kept) = c
          /\ Truncated(toks, kept, at_start, at_end)

\* The call has passed the loop over the tokens: source_words holds the
\* candidates before the replacement.
C12_Applies ==
    /\ pc \in {"replace", "return", "done"}
    /\ make_abbreviations_optional

GoToSeeTheMatch == <<"(", "g", "o", ")", " ", "t", "o", " ", "s", "e", "e", " ", "t", "h", "e", " ", "m", "a", "t", "c", "h">>
GoSeeTheMatch == <<"g", "o", " ", "s", "e", "e", " ", "t", "h", "e", " ", "m", "a", "t", "c", "h">>
RunningAfterSbRight == <<"(", "I", " ", "t", "h", "i", "n", "k", ")", " ", "s", "b", ".", " ", "i", "s", " ", "r", "u", "n", "n", "i", "n", "g", " ", "a", "f", "t", "e", "r", " ", "s", "b", ".", " ", "(", "r", "i", "g", "h", "t", "?", ")">>
AfterRight == <<"a", "f", "t", "e", "r", " ", "r", "i", "g", "h", "t", "?">>

\* The last two words of a string.
LastTwoWords(word) ==
    LET parts == Split(word)
    IN  IF Len(parts) < 2 THEN <<>>
        ELSE Join(SubSeq(parts, Len(parts) - 1, Len(parts)))

\* What C12 gives as examples.
C12_Examples ==
    pc = "done" =>
       /\ field = GoToSeeTheMatch /\ word_class = "verb"
             => GoSeeTheMatch \notin AsStr(result)
       /\ field = RunningAfterSbRight
             => \A word \in AsStr(result) : LastTwoWords(word) # AfterRight

\* C12 as it is worded: a candidate without the start-optional first Word has
\* no Round from before it, a candidate without the end-optional last Word
\* no Round from after it.  (Does not hold: in "(go to) sb." the only Word is
\* both, it is left out as the last Word, and "go to" is a candidate.)
C12_OmissionTruncates ==
    /\ C12_Applies =>
          CandidatesTruncated(Get(source_words), tokens,
              LeadingIsStartOptional(tokens, word_class, lang, TRUE),
              TrailingIsEndOptional(tokens, word_class, lang, TRUE))
    /\ C12_Examples

\* The first Word is left out by the start rule unless it is also the last
\* Word and end-optional: the end rule comes first.
StartRuleApplies(toks, wclass, l, optional) ==
    /\ LeadingIsStartOptional(toks, wclass, l, optional)
    /\ ~(/\ FirstWordIndex(toks) = LastWordIndex(toks)
         /\ TrailingIsEndOptional(toks, wclass, l, optional))

\* C12, amended: a candidate without the end-optional last Word has no Round
\* from after it; a candidate without the start-optional first Word has no
\* Round from before it, unless that Word is also the end-optional last Word
\* of the phrase, when it is left out as a trailing abbreviation only.
\* "(go) to see the match" as a verb never returns "go see the match", and
\* "(I think) sb. is running after sb. (right?)" nothing on "after right?".
C12_OmissionTruncatesByRule ==
    /\ C12_Applies =>
          CandidatesTruncated(Get(source_words), tokens,
              StartRuleApplies(tokens, word_class, lang, TRUE),
              TrailingIsEndOptional(tokens, word_class, lang, TRUE))
    /\ C12_Examples

\* C12: "(I think) sb. is running after sb. (right?)" has returned candidates
\* without its leading and its trailing "sb." and one with "right?".
C12_Witness ==
    /\ pc = "done"
    /\ field = RunningAfterSbRight
    /\ StartRuleApplies(tokens, word_class, lang, make_abbreviations_optional)
    /\ TrailingIsEndOptional(tokens, word_class, lang, make_abbreviations_optional)
    /\ <<"i", "s", " ", "r", "u", "n", "n", "i", "n", "g", " ", "a", "f", "t", "e", "r">> \in AsStr(result)
    /\ <<"i", "s", " ", "r", "u", "n", "n", "i", "n", "g", " ", "a", "f", "t", "e", "r", " ", "s", "b", ".", " ", "r", "i", "g", "h", "t", "?">> \in AsStr(result)

====
